---- MODULE Spec2Model ----
(***************************************************************************)
(* A model of sajari/fastentity: a store of named groups of phrases        *)
(* ("entities") and the single-pass search that reports the occurrences   *)
(* of the phrases in a text.                                               *)
(*                                                                         *)
(* Runes are modelled as their code points (Go's rune is an int32), texts *)
(* and phrases as sequences of code points.  Go offsets are 0-based: the  *)
(* rune rs[off] of the source is rs[off + 1] here.                         *)
(***************************************************************************)
EXTENDS Integers, Sequences, FiniteSets, TLC

(***************************************************************************)
(* Program constants.                                                      *)
(***************************************************************************)
\* var MaxEntityLen = 30
MaxEntityLen == 30
\* pairs := make([]pair, 0, 20)
WindowCap == 20
\* unsafe.Sizeof(pair{}): type pair [2]int on a 64-bit build
PairSize == 16

(***************************************************************************)
(* package unicode, on the code points the model uses (Latin-1, the       *)
(* spaces of the general punctuation block and CJK).                       *)
(***************************************************************************)
\* unicode.IsPunct: categories Pc, Pd, Ps, Pe, Pi, Pf, Po
PunctRunes ==
    {33, 34, 35, 37, 38, 39, 40, 41, 42, 44, 45, 46, 47, 58, 59, 63, 64,
     91, 92, 93, 95, 123, 125, 161, 167, 171, 182, 183, 187, 191,
     12289, 12290}

\* unicode.IsSpace: '\t', '\n', '\v', '\f', '\r', ' ', U+0085, U+00A0 and Z
SpaceRunes ==
    {9, 10, 11, 12, 13, 32, 133, 160, 5760, 8232, 8233, 8239, 8287, 12288}
        \cup (8192 .. 8202)

IsPunct(r) == r \in PunctRunes

IsSpace(r) == r \in SpaceRunes

\* punctuation does not separate words
IsSeparator_spaceOnly(r) == IsSpace(r)

\* whitespace does not separate words
IsSeparator_punctOnly(r) == IsPunct(r)

\* space = unicode.IsPunct(r) || unicode.IsSpace(r)
IsSeparator(r) == IsPunct(r) \/ IsSpace(r)

\* unicode.ToLower
ToLower(r) ==
    IF r >= 65 /\ r <= 90 THEN r + 32
    ELSE IF r >= 192 /\ r <= 222 /\ r # 215 THEN r + 32
    ELSE r

\* s with every rune lowercased
LowerSeq(s) == [i \in 1 .. Len(s) |-> ToLower(s[i])]

\* Go's rs[lo:hi], 0-based and half-open
Slice(rs, lo, hi) == SubSeq(rs, lo + 1, hi)

(***************************************************************************)
(* hash: the bucket key of a span.                                         *)
(***************************************************************************)
RECURSIVE Digits(_)
\* the decimal digits of n as runes ('0' is 48)
Digits(n) == IF n < 10 THEN <<48 + n>> ELSE Digits(n \div 10) \o <<48 + (n % 10)>>

\* fmt's %d: decimal, not padded
Pad3_plain(n) == Digits(n)

\* fmt's %03d: decimal, zero-padded to a width of 3
Pad3(n) ==
    LET d == Digits(n)
    IN  IF Len(d) >= 3 THEN d ELSE [i \in 1 .. (3 - Len(d)) |-> 48] \o d

\* string(r) of a rune, as the code point it reads back as: a rune that is
\* no valid code point (a surrogate half, a negative value, a value above
\* U+10FFFF) becomes U+FFFD
RuneString(r) ==
    IF (r >= 0 /\ r < 55296) \/ (r > 57343 /\ r <= 1114111) THEN r ELSE 65533

\* the key without the length: the lowercased first runes only
hash_prefixOnly(rs) ==
    [i \in 1 .. (IF Len(rs) < 3 THEN Len(rs) ELSE 3) |-> RuneString(ToLower(rs[i]))]

\* hash(rs): the lowercased first runes (at most 3) followed by %03d of len(rs).
\* Defined for len(rs) >= 1 (rs[0] is read unconditionally).
hash(rs) ==
    IF Len(rs) > 2
    THEN <<RuneString(ToLower(rs[1])), RuneString(ToLower(rs[2])),
           RuneString(ToLower(rs[3]))>> \o Pad3(Len(rs))
    ELSE IF Len(rs) > 1
    THEN <<RuneString(ToLower(rs[1])), RuneString(ToLower(rs[2]))>> \o Pad3(Len(rs))
    ELSE <<RuneString(ToLower(rs[1]))>> \o Pad3(Len(rs))

(***************************************************************************)
(* The window of word spans: a Go slice, that is its elements and the     *)
(* capacity of its backing array.                                          *)
(***************************************************************************)
\* runtime size classes (bytes) that a grown []pair is rounded up to
SizeClasses ==
    {16, 32, 48, 64, 80, 96, 112, 128, 144, 160, 176, 192, 208, 224, 240, 256,
     288, 320, 352, 384, 416, 448, 480, 512, 576, 640, 704, 768, 896, 1024,
     1152, 1280, 1408, 1536, 1792, 2048, 2304, 2688, 3072, 3200, 3456, 4096}

\* the smallest size class holding n bytes
RoundUpSize(n) == CHOOSE c \in SizeClasses : c >= n /\ \A d \in SizeClasses : d >= n => c <= d

\* the capacity append gives a full slice of capacity c that needs one more
\* element: doubled (c < 256), rounded up to a size class
GrowCap(c) == IF c = 0 THEN 1 ELSE RoundUpSize(2 * c * PairSize) \div PairSize

\* pairs := make([]pair, 0, 2): a window of two spans
EmptyWindow_two == [s |-> <<>>, cap |-> 2]

\* pairs := make([]pair, 0, 20)
EmptyWindow == [s |-> <<>>, cap |-> WindowCap]

\* append(w, n)
AppendPair(w, n) ==
    IF Len(w.s) < w.cap THEN [s |-> Append(w.s, n), cap |-> w.cap]
    ELSE [s |-> Append(w.s, n), cap |-> GrowCap(w.cap)]

\* w[1:]: one element and one slot of capacity fewer
Tail1(w) == [s |-> Tail(w.s), cap |-> w.cap - 1]

\* shift(n, s): the new window (the popped pair is discarded by the caller)
shift(n, w) ==
    IF Len(w.s) = 0 THEN AppendPair(w, n)
    ELSE IF Len(w.s) = w.cap THEN AppendPair(Tail1(w), n)
    ELSE AppendPair(w, n)

(***************************************************************************)
(* Groups and the matching engine.                                         *)
(*   group  : [name, entities, maxLen], entities a map from bucket key to  *)
(*            the list of the phrases stored under it                      *)
(*   Entity : [Text, Offset], a match                                      *)
(*   pair   : <<left, right>>, the half-open span of a word                *)
(***************************************************************************)
\* &group{name: name, entities: make(map[string][][]rune, DefaultGroupSize)}
NewGroup(name) == [name |-> name, entities |-> <<>>, maxLen |-> 0]

\* m[k] of a Go map with slice values: nil (the empty list) for an absent key
MapGet(m, k) == IF k \in DOMAIN m THEN m[k] ELSE <<>>

\* m[k] = v
MapPut(m, k, v) == [x \in DOMAIN m \cup {k} |-> IF x = k THEN v ELSE m[x]]

\* the comparison loop left out: every phrase of the bucket matches
entMatches_bucketOnly(ent, rs, left) == TRUE

\* the inner comparison loop: every rune of ent equals, lowercased, the rune
\* of rs at the same distance from left
entMatches(ent, rs, left) ==
    \A i \in 1 .. Len(ent) : ToLower(ent[i]) = ToLower(rs[left + i])

RECURSIVE bucketScan(_, _, _, _, _)
\* for _, ent := range ents: break on the first phrase whose length differs
\* from the candidate's, append an Entity for every phrase that matches
bucketScan(ents, k, rs, left, right) ==
    IF k > Len(ents) THEN <<>>
    ELSE IF Len(ents[k]) # right - left THEN <<>>
    ELSE (IF entMatches(ents[k], rs, left)
          THEN <<[Text |-> Slice(rs, left, right), Offset |-> left]>>
          ELSE <<>>)
         \o bucketScan(ents, k + 1, rs, left, right)

\* the body of "for _, g := range groups" for one group: the matches of the
\* candidate rs[left:right] in g
groupMatches(g, rs, left, right) ==
    IF right - left > g.maxLen THEN <<>>
    ELSE LET h == hash(Slice(rs, left, right))
         IN  IF h \in DOMAIN g.entities
             THEN bucketScan(g.entities[h], 1, rs, left, right)
             ELSE <<>>

\* results[name] = append(results[name], ms...)
appendResults(results, name, ms) ==
    IF ms = <<>> THEN results ELSE MapPut(results, name, MapGet(results, name) \o ms)

\* the loop over the groups looks at the k-th group only
groupsLoop_firstOnly(groups, k, rs, left, right, results) ==
    IF k > Len(groups) THEN results
    ELSE appendResults(results, groups[k].name, groupMatches(groups[k], rs, left, right))

RECURSIVE groupsLoop(_, _, _, _, _, _)
\* for _, g := range groups, from the k-th group on
groupsLoop(groups, k, rs, left, right, results) ==
    IF k > Len(groups) THEN results
    ELSE groupsLoop(groups, k + 1, rs, left, right,
                    appendResults(results, groups[k].name,
                                  groupMatches(groups[k], rs, left, right)))

\* the walk never stops on the candidate's length
tooLong_never(left, right) == FALSE

\* the walk stops at a candidate of three code points
tooLong_atThree(left, right) == right - left = 3

\* p2[right]-p1[left] > MaxEntityLen: the walk stops
tooLong(left, right) == right - left > MaxEntityLen

RECURSIVE walk_stopAtMatch(_, _, _, _, _)
\* the walk ends at the first candidate that some group matches
walk_stopAtMatch(pairs, i, rs, groups, results) ==
    IF i < 1 THEN results
    ELSE LET left == pairs[i][1]
             right == pairs[Len(pairs)][2]
             found == groupsLoop(groups, 1, rs, left, right, results)
         IN  IF tooLong(left, right) THEN results
             ELSE IF found # results THEN found
             ELSE walk_stopAtMatch(pairs, i - 1, rs, groups, found)

RECURSIVE walk(_, _, _, _, _)
\* for i := len(pairs) - 1; i >= 0; i--, here i counts from Len(pairs) to 1
walk(pairs, i, rs, groups, results) ==
    IF i < 1 THEN results
    ELSE LET left == pairs[i][1]
             right == pairs[Len(pairs)][2]
         IN  IF tooLong(left, right) THEN results
             ELSE walk(pairs, i - 1, rs, groups,
                       groupsLoop(groups, 1, rs, left, right, results))

\* the window is walked whatever it holds
walkable_always(pairs) == TRUE

\* len(pairs) > 1: the window is walked
walkable(pairs) == Len(pairs) > 1

\* the scan starts as if inside a word
scanInit_midWord == [pairs |-> EmptyWindow, start |-> 0, prevSpace |-> FALSE, results |-> <<>>]

\* the state of the scan before the first rune
scanInit == [pairs |-> EmptyWindow, start |-> 0, prevSpace |-> TRUE, results |-> <<>>]

\* one iteration of "for off, r := range rs"
scanStep(st, off, rs, groups) ==
    LET space == IsSeparator(rs[off + 1])
    IN  IF st.prevSpace /\ ~space
        THEN [st EXCEPT !.start = off, !.prevSpace = space]
        ELSE IF space /\ ~st.prevSpace
        THEN LET w == shift(<<st.start, off>>, st.pairs)
             IN  [st EXCEPT !.pairs = w,
                            !.prevSpace = space,
                            !.results = IF walkable(w.s)
                                        THEN walk(w.s, Len(w.s), rs, groups, st.results)
                                        ELSE st.results]
        ELSE [st EXCEPT !.prevSpace = space]

RECURSIVE scan(_, _, _, _, _)
\* the scan state after the iterations off = lo, ..., hi - 1 of the loop, run
\* in order from the state st (the range is split in two to bound the depth
\* of the evaluation)
scan(st, lo, hi, rs, groups) ==
    IF hi <= lo THEN st
    ELSE IF hi = lo + 1 THEN scanStep(st, lo, rs, groups)
    ELSE LET mid == (lo + hi) \div 2
         IN  CHOOSE out \in {scan(half, mid, hi, rs, groups) :
                                half \in {scan(st, lo, mid, rs, groups)}} : TRUE

\* find(rs, groups): group name -> the matches, in the order found
find(rs, groups) == scan(scanInit, 0, Len(rs), rs, groups).results

\* (g *group).Find(rs), called with no concurrent writer
Find(g, rs) == MapGet(find(rs, <<g>>), g.name)

(***************************************************************************)
(* The store.  s.groups maps a name to a *group; the group objects live    *)
(* in heap and a reference is an index into it.                            *)
(***************************************************************************)
VARIABLES
    groups,     \* Store.groups: group name -> reference
    heap,       \* the group objects allocated so far
    input,      \* the text of the last FindAll
    result,     \* what the last FindAll returned
    lastOp,     \* the last operation called: [op, name, repeat], repeat when it
                \* is a FindAll that follows a FindAll of the same text
    nAdds,      \* the number of Add calls so far
    pc,         \* goroutine -> where it is in the operation it runs
    loc,        \* goroutine -> the locals of the operation it runs
    slock,      \* the store's RWMutex
    glock,      \* the groups' RWMutexes, one per object of heap
    fatal,      \* the runtime has aborted the program on a concurrent map access
    nOps,       \* the number of operations started so far
    log,        \* <<name, phrase>> -> how often a completed Add added it
    overlap,    \* two Adds naming the same absent group have been in flight at once
    nilMap,     \* s.groups is nil: the Store is a zero value, not made by New
    panicked,   \* the message of the panic that ended the program, "" if none
    disk,       \* the directory: file name -> the lines of the file
    loaded      \* what the last FromDir returned

seqVars == <<groups, heap, input, result, lastOp, nAdds>>

concVars == <<pc, loc, slock, glock, fatal, nOps, log, overlap>>

extVars == <<nilMap, panicked, disk, loaded>>

vars == <<groups, heap, input, result, lastOp, nAdds,
          pc, loc, slock, glock, fatal, nOps, log, overlap,
          nilMap, panicked, disk, loaded>>

\* FromDir has not been called
NotLoaded == [called |-> FALSE]

\* a Store made by New, nothing saved or loaded, no panic
MadeByNew ==
    /\ nilMap = FALSE
    /\ panicked = ""
    /\ disk = <<>>
    /\ loaded = NotLoaded

\* the goroutines
Procs == {"p1", "p2"}

\* no goroutine
NoProc == "none"

\* the zero value of sync.RWMutex: writer is the goroutine that has called
\* Lock and not yet Unlock, waiting while it waits for the readers to leave
FreeLock == [writer |-> NoProc, waiting |-> FALSE, readers |-> {}]

\* the locals of a goroutine that runs no operation
NoLocals ==
    [name |-> "", ents |-> <<>>, g |-> 0, k |-> 0, rs |-> <<>>,
     first |-> {}, visited |-> {}, res |-> <<>>]

\* no goroutine runs an operation: the state of the process variables while
\* a single caller uses the store
Quiescent(hp) ==
    /\ pc = [p \in Procs |-> "idle"]
    /\ loc = [p \in Procs |-> NoLocals]
    /\ slock = FreeLock
    /\ glock = [i \in 1 .. Len(hp) |-> FreeLock]
    /\ fatal = FALSE
    /\ nOps = 0
    /\ log = <<>>
    /\ overlap = FALSE

\* the group object that name refers to
GroupOf(gs, hp, name) == hp[gs[name]]

\* every phrase stored in g, bucket by bucket
PhrasesOf(g) == UNION {{g.entities[h][i] : i \in 1 .. Len(g.entities[h])} : h \in DOMAIN g.entities}

RECURSIVE NewLoop(_, _, _, _)
\* for _, name := range groups { s.groups[name] = &group{...} }
NewLoop(names, k, gs, hp) ==
    IF k > Len(names) THEN [groups |-> gs, heap |-> hp]
    ELSE NewLoop(names, k + 1, MapPut(gs, names[k], Len(hp) + 1),
                 Append(hp, NewGroup(names[k])))

\* New(groups...)
New(names) == NewLoop(names, 1, <<>>, <<>>)

\* Add works on the first group allocated, whatever the name
AddTarget_first(gs, hp, name) == IF Len(hp) > 0 THEN 1 ELSE Len(hp) + 1

\* the reference Add works on: the group found under name, or a new one
AddTarget(gs, hp, name) == IF name \in DOMAIN gs THEN gs[name] ELSE Len(hp) + 1

\* Add, first half (under the store's lock): look the group up, create and
\* register it when it is absent
AddLookup(gs, hp, name) ==
    IF name \in DOMAIN gs THEN [groups |-> gs, heap |-> hp]
    ELSE [groups |-> MapPut(gs, name, Len(hp) + 1), heap |-> Append(hp, NewGroup(name))]

\* an entity that the group holds already, in any casing, is not stored again
AddEntity_dedup(g, e) ==
    LET h == hash(e)
        b == MapGet(g.entities, h)
    IN  IF \E i \in 1 .. Len(b) : LowerSeq(b[i]) = LowerSeq(e) THEN g
        ELSE [g EXCEPT !.entities = MapPut(g.entities, h, Append(b, e)),
                       !.maxLen = IF Len(e) > g.maxLen THEN Len(e) ELSE g.maxLen]

\* maxLen is set to the length of the entity added last
AddEntity_lastLen(g, e) ==
    LET h == hash(e)
    IN  [g EXCEPT !.entities = MapPut(g.entities, h, Append(MapGet(g.entities, h), e)),
                  !.maxLen = Len(e)]

\* the body of "for _, e := range entities" for one entity
AddEntity(g, e) ==
    LET h == hash(e)
    IN  [g EXCEPT !.entities = MapPut(g.entities, h, Append(MapGet(g.entities, h), e)),
                  !.maxLen = IF Len(e) > g.maxLen THEN Len(e) ELSE g.maxLen]

RECURSIVE AddEntities(_, _, _)
\* for _, e := range entities, from the k-th entity on
AddEntities(g, ents, k) ==
    IF k > Len(ents) THEN g ELSE AddEntities(AddEntity(g, ents[k]), ents, k + 1)

\* (s *Store).Add(name, entities...) run to completion
AddStore(gs, hp, name, ents) ==
    LET ref == AddTarget(gs, hp, name)
        st  == AddLookup(gs, hp, name)
    IN  [groups |-> st.groups,
         heap   |-> [st.heap EXCEPT ![ref] = AddEntities(st.heap[ref], ents, 1)]]

\* the orders in which "for name, g := range s.groups" may visit the groups
RangeOrders(S) ==
    {o \in [1 .. Cardinality(S) -> S] : \A i, j \in 1 .. Cardinality(S) : i # j => o[i] # o[j]}

\* the loop returns after the first group visited
FindAllLoop_firstOnly(order, k, gs, hp, rs, res) ==
    IF Len(order) = 0 THEN res
    ELSE MapPut(res, order[1], Find(GroupOf(gs, hp, order[1]), rs))

RECURSIVE FindAllLoop_matchedOnly(_, _, _, _, _, _)
\* the loop gives a group a key only when the group has a match
FindAllLoop_matchedOnly(order, k, gs, hp, rs, res) ==
    IF k > Len(order) THEN res
    ELSE FindAllLoop_matchedOnly(order, k + 1, gs, hp, rs,
             appendResults(res, order[k], Find(GroupOf(gs, hp, order[k]), rs)))

RECURSIVE FindAllLoop(_, _, _, _, _, _)
\* for s, g := range s.groups { result[s] = g.Find(rs) }
FindAllLoop(order, k, gs, hp, rs, res) ==
    IF k > Len(order) THEN res
    ELSE FindAllLoop(order, k + 1, gs, hp, rs,
                     MapPut(res, order[k], Find(GroupOf(gs, hp, order[k]), rs)))

\* (s *Store).FindAll(rs), the groups visited in the given order
FindAllIn(order, gs, hp, rs) == FindAllLoop(order, 1, gs, hp, rs, <<>>)

(***************************************************************************)
(* The inputs of the sequential specification: group names, phrases and    *)
(* texts, as code points.                                                  *)
(***************************************************************************)
\* the most Add calls in one behaviour
MaxAdds == 2

Names == {"A", "B"}

\* the arguments of New
InitNames == {<<>>, <<"A">>, <<"A", "B">>}

\* "ab"
PhAb ==
    <<97, 98>>

\* "AB"
PhABUpper ==
    <<65, 66>>

\* "a b"
PhAB2 ==
    <<97, 32, 98>>

\* "abca"
PhAbca ==
    <<97, 98, 99, 97>>

\* "abcdefghij abcdefghij abcdefghi"
PhLong31 ==
    <<97, 98, 99, 100, 101, 102, 103, 104, 105, 106, 32, 97, 98, 99, 100, 101, 102,
      103, 104, 105, 106, 32, 97, 98, 99, 100, 101, 102, 103, 104, 105>>

\* the phrases Add is called with
Phrases == {PhAb, PhAB2, PhAbca, PhLong31}

\* the entity lists an Add call is given: one phrase, or several
Batches == {<<e>> : e \in Phrases} \cup {<<PhABUpper, PhAb>>}

\* ""
TxEmpty ==
    <<>>

\* "ab"
TxAb ==
    <<97, 98>>

\* "ab "
TxAbSp ==
    <<97, 98, 32>>

\* " ab."
TxSpAbDot ==
    <<32, 97, 98, 46>>

\* "x ab"
TxXAb ==
    <<120, 32, 97, 98>>

\* "x AB."
TxXABDot ==
    <<120, 32, 65, 66, 46>>

\* "x a b, ab."
TxMixed ==
    <<120, 32, 97, 32, 98, 44, 32, 97, 98, 46>>

\* "x abcb abca."
TxAbcb ==
    <<120, 32, 97, 98, 99, 98, 32, 97, 98, 99, 97, 46>>

\* "z abcdefghij abcdefghij abcdefghi."
TxLong31 ==
    <<122, 32, 97, 98, 99, 100, 101, 102, 103, 104, 105, 106, 32, 97, 98, 99, 100, 101,
      102, 103, 104, 105, 106, 32, 97, 98, 99, 100, 101, 102, 103, 104, 105, 46>>

\* the texts FindAll is called with
Texts ==
    {TxEmpty, TxAb, TxAbSp, TxSpAbDot, TxXAb,
     TxXABDot, TxMixed, TxAbcb, TxLong31}

(***************************************************************************)
(* The sequential specification: one caller, operations run to completion. *)
(***************************************************************************)
Init ==
    /\ \E names \in InitNames :
          /\ groups = New(names).groups
          /\ heap = New(names).heap
    /\ input = <<>>
    /\ result = <<>>
    /\ lastOp = [op |-> "New", name |-> "", repeat |-> FALSE]
    /\ nAdds = 0
    /\ Quiescent(heap)
    /\ MadeByNew

\* the log with the entities of a completed Add counted in
Logged(lg, name, ents) ==
    [x \in DOMAIN lg \cup {<<name, ents[i]>> : i \in 1 .. Len(ents)} |->
        (IF x \in DOMAIN lg THEN lg[x] ELSE 0)
            + Cardinality({i \in 1 .. Len(ents) : <<name, ents[i]>> = x})]

\* s.groups[name] = g assigns no entry
NilMapAssign_silent(nil) == ""

\* the panic of s.groups[name] = g: an assignment to an entry of a nil map
\* panics, any other assignment does not
NilMapAssign(nil) == IF nil THEN "assignment to entry in nil map" ELSE ""

\* the panic of hash(e): rs[0] is read whatever the length, and the read of
\* an empty slice panics
HashPanic(e) ==
    IF Len(e) = 0 THEN "index out of range [0] with length 0" ELSE ""

\* the index of the first entity of ents on which hash panics, 0 when there
\* is none
FirstPanic(ents) ==
    IF \E k \in 1 .. Len(ents) : HashPanic(ents[k]) # ""
    THEN CHOOSE k \in 1 .. Len(ents) :
            /\ HashPanic(ents[k]) # ""
            /\ \A j \in 1 .. k - 1 : HashPanic(ents[j]) = ""
    ELSE 0

\* a lock that the caller has taken with Lock() and not released
LockedByCaller == [writer |-> "caller", waiting |-> FALSE, readers |-> {}]

\* s.Add(name, ents...).  When s.groups is nil the lookup finds no group and
\* the insertion of the new one panics, before any entity is looked at and
\* with the store's lock held.  When hash panics on an entity, the entities
\* before it have been stored and the group's lock is held (Add defers no
\* unlock).
Add(name, ents) ==
    /\ panicked = ""
    /\ nAdds < MaxAdds
    /\ IF name \notin DOMAIN groups /\ NilMapAssign(nilMap) # ""
       THEN /\ panicked' = NilMapAssign(nilMap)
            /\ slock' = LockedByCaller
            /\ UNCHANGED <<groups, heap, glock, log>>
       ELSE IF FirstPanic(ents) # 0
       THEN LET done == SubSeq(ents, 1, FirstPanic(ents) - 1)
            IN  /\ groups' = AddStore(groups, heap, name, done).groups
                /\ heap' = AddStore(groups, heap, name, done).heap
                /\ glock' = [i \in 1 .. Len(heap') |->
                                IF i = AddTarget(groups, heap, name)
                                THEN LockedByCaller ELSE FreeLock]
                /\ log' = Logged(log, name, done)
                /\ panicked' = HashPanic(ents[FirstPanic(ents)])
                /\ UNCHANGED slock
       ELSE /\ groups' = AddStore(groups, heap, name, ents).groups
            /\ heap' = AddStore(groups, heap, name, ents).heap
            /\ glock' = [i \in 1 .. Len(heap') |-> FreeLock]
            /\ log' = Logged(log, name, ents)
            /\ UNCHANGED <<panicked, slock>>
    /\ lastOp' = [op |-> "Add", name |-> name, repeat |-> FALSE]
    /\ nAdds' = nAdds + 1
    /\ UNCHANGED <<input, result, pc, loc, fatal, nOps, overlap,
                   nilMap, disk, loaded>>

\* s.FindAll(rs)
FindAll(rs) ==
    /\ panicked = ""
    /\ \E order \in RangeOrders(DOMAIN groups) :
          result' = FindAllIn(order, groups, heap, rs)
    /\ input' = rs
    /\ lastOp' = [op |-> "FindAll", name |-> "",
                  repeat |-> lastOp.op = "FindAll" /\ input = rs]
    /\ UNCHANGED <<groups, heap, nAdds, concVars, extVars>>

Next ==
    \/ \E name \in Names, ents \in Batches : Add(name, ents)
    \/ \E rs \in Texts : FindAll(rs)

Spec == Init /\ [][Next]_vars

\* the caller's Store is the zero value (var s Store, &Store{}), whose
\* groups map is nil, or a Store made by New
ZeroInit ==
    /\ \/ /\ groups = <<>>
          /\ heap = <<>>
          /\ nilMap = TRUE
       \/ /\ \E names \in InitNames :
                /\ groups = New(names).groups
                /\ heap = New(names).heap
          /\ nilMap = FALSE
    /\ input = <<>>
    /\ result = <<>>
    /\ lastOp = [op |-> "New", name |-> "", repeat |-> FALSE]
    /\ nAdds = 0
    /\ Quiescent(heap)
    /\ panicked = ""
    /\ disk = <<>>
    /\ loaded = NotLoaded

SpecZero == ZeroInit /\ [][Next]_vars

(***************************************************************************)
(* Save and FromDir.  A file is the sequence of the code points of its     *)
(* text; the directory maps the part of a file's name before the suffix    *)
(* ".entities.csv" to the file.                                            *)
(***************************************************************************)
\* the code point read back from the UTF-8 encoding of r: string(e) encodes
\* a rune that is no valid code point as U+FFFD
Utf8Rune(r) == IF (r >= 0 /\ r < 55296) \/ (r > 57343 /\ r <= 1114111) THEN r ELSE 65533

\* string(e) + "\n"
FileLine(e) == [i \in 1 .. Len(e) |-> Utf8Rune(e[i])] \o <<10>>

RECURSIVE BucketText(_, _)
\* for _, e := range entities { f.WriteString(string(e) + "\n") }
BucketText(ents, k) ==
    IF k > Len(ents) THEN <<>> ELSE FileLine(ents[k]) \o BucketText(ents, k + 1)

RECURSIVE GroupText(_, _, _)
\* for _, entities := range g.entities, the buckets visited in the order border
GroupText(g, border, k) ==
    IF k > Len(border) THEN <<>>
    ELSE BucketText(g.entities[border[k]], 1) \o GroupText(g, border, k + 1)

\* strings.Replace(name, "/", "_", -1), for the names of the model
ReplaceSlash(name) == IF name = "a/b" THEN "a_b" ELSE name

\* the orders in which Save may range over the buckets of each group
BucketOrders(gs, hp) ==
    {bo \in [DOMAIN gs -> UNION {RangeOrders(DOMAIN hp[gs[n]].entities) : n \in DOMAIN gs}] :
        \A n \in DOMAIN gs : bo[n] \in RangeOrders(DOMAIN hp[gs[n]].entities)}

RECURSIVE SaveLoop(_, _, _, _, _, _, _)
\* for name, g := range s.groups: create (and truncate) the file of the
\* group and write its entities; os.Create fails for the bad-th group
\* visited (for none when bad = 0) and Save returns the error
SaveLoop(order, k, bad, bo, gs, hp, dk) ==
    IF k > Len(order) \/ k = bad THEN dk
    ELSE SaveLoop(order, k + 1, bad, bo, gs, hp,
                  MapPut(dk, ReplaceSlash(order[k]),
                         GroupText(GroupOf(gs, hp, order[k]), bo[order[k]], 1)))

\* the line without its end: bufio.ScanLines drops one trailing "\r"
DropCR(line) ==
    IF Len(line) > 0 /\ line[Len(line)] = 13 THEN SubSeq(line, 1, Len(line) - 1) ELSE line

RECURSIVE ScanLines(_, _, _)
\* the tokens of bufio.Scanner on the text from position k on, cur being the
\* line read so far: lines end with "\n", a last line without "\n" is a
\* token when it is not empty
ScanLines(text, k, cur) ==
    IF k > Len(text) THEN (IF cur = <<>> THEN <<>> ELSE <<DropCR(cur)>>)
    ELSE IF text[k] = 10 THEN <<DropCR(cur)>> \o ScanLines(text, k + 1, <<>>)
    ELSE ScanLines(text, k + 1, Append(cur, text[k]))

RECURSIVE AddFromReader(_, _, _, _)
\* AddFromReader: store.Add(name, rt) for every line that is not empty
AddFromReader(lines, k, st, name) ==
    IF k > Len(lines) THEN st
    ELSE AddFromReader(lines, k + 1,
                       IF Len(lines[k]) > 0
                       THEN AddStore(st.groups, st.heap, name, <<lines[k]>>)
                       ELSE st,
                       name)

\* what happens to a file in FromDir: it is read to its end, os.Open fails,
\* or the Scanner stops with an error
Outcomes == {"ok", "open", "read"}

RECURSIVE LoadLoop(_, _, _, _, _)
\* the goroutines of FromDir, one per file, in the order in which they end:
\* the Store they fill, the errors sent to errCh, and count.n
LoadLoop(order, k, out, dk, acc) ==
    IF k > Len(order) THEN acc
    ELSE LET f == order[k]
         IN  LoadLoop(order, k + 1, out, dk,
                 IF out[f] = "open"
                 THEN [acc EXCEPT !.errs = Append(@, <<"error opening", f>>)]
                 ELSE IF out[f] = "read"
                 THEN [acc EXCEPT !.errs = Append(@, <<"error reading from", f>>)]
                 ELSE LET st == AddFromReader(ScanLines(dk[f], 1, <<>>), 1,
                                              [groups |-> acc.groups, heap |-> acc.heap], f)
                      IN  [acc EXCEPT !.groups = st.groups, !.heap = st.heap,
                                      !.count = @ + 1])

\* FromDir(dir): the Store built and what is returned; ok says that the
\* Store is returned, err is the error returned (<<>> for nil)
FromDirIn(order, out, dk) ==
    LET acc == LoadLoop(order, 1, out, dk,
                        [groups |-> New(<<>>).groups, heap |-> New(<<>>).heap,
                         errs |-> <<>>, count |-> 0])
        err == IF acc.errs # <<>> THEN acc.errs[1]
               ELSE IF acc.count = 0 THEN <<"no entity files found", "">>
               ELSE <<>>
    IN  [called |-> TRUE, ok |-> err = <<>>, err |-> err, errs |-> acc.errs,
         count |-> acc.count, groups |-> acc.groups, heap |-> acc.heap,
         failed |-> {f \in DOMAIN out : out[f] # "ok"}, after |-> <<>>]

(***************************************************************************)
(* The specification of saving and loading: one caller adds to a Store,    *)
(* saves it to a directory that starts empty, and loads the directory.     *)
(***************************************************************************)
DiskInitNames == {<<>>, <<"A">>}

DiskNames == {"A", "a/b"}

\* "a\nb"
PhNewline == <<97, 10, 98>>

DiskBatches == {<<PhAB2>>, <<PhABUpper, PhAb>>, <<PhNewline>>}

DiskInit ==
    /\ \E names \in DiskInitNames :
          /\ groups = New(names).groups
          /\ heap = New(names).heap
    /\ input = <<>>
    /\ result = <<>>
    /\ lastOp = [op |-> "New", name |-> "", repeat |-> FALSE]
    /\ nAdds = 0
    /\ Quiescent(heap)
    /\ MadeByNew

\* s.Save(dir): lastOp.name is the group whose file could not be created,
\* "" when Save returns nil
Save ==
    /\ panicked = ""
    /\ \E order \in RangeOrders(DOMAIN groups) :
       \E bad \in 0 .. Len(order) :
       \E bo \in BucketOrders(groups, heap) :
          /\ disk' = SaveLoop(order, 1, bad, bo, groups, heap, disk)
          /\ lastOp' = [op |-> "Save", name |-> IF bad = 0 THEN "" ELSE order[bad],
                        repeat |-> FALSE]
    /\ UNCHANGED <<groups, heap, input, result, nAdds, concVars, nilMap, panicked, loaded>>

\* FromDir(dir)
FromDir ==
    /\ panicked = ""
    /\ \E out \in [DOMAIN disk -> Outcomes] :
       \E order \in RangeOrders(DOMAIN disk) :
          loaded' = [FromDirIn(order, out, disk) EXCEPT !.after = lastOp]
    /\ lastOp' = [op |-> "FromDir", name |-> "", repeat |-> FALSE]
    /\ UNCHANGED <<groups, heap, input, result, nAdds, concVars, nilMap, panicked, disk>>

DiskNext ==
    \/ \E name \in DiskNames, ents \in DiskBatches : Add(name, ents)
    \/ Save
    \/ FromDir

SpecDisk == DiskInit /\ [][DiskNext]_vars

(***************************************************************************)
(* The specification of the tokenizer: FindAll on every text of at most    *)
(* MaxTokLen runes over a letter, a space and a full stop.                 *)
(***************************************************************************)
MaxTokLen == 4

TokRunes == {97, 32, 46}

TokTexts == UNION {[1 .. n -> TokRunes] : n \in 0 .. MaxTokLen}

\* "a", "a a"
TokPhrases == {<<97>>, <<97, 32, 97>>}

TokInit ==
    /\ groups = New(<<"A">>).groups
    /\ heap = New(<<"A">>).heap
    /\ input = <<>>
    /\ result = <<>>
    /\ lastOp = [op |-> "New", name |-> "", repeat |-> FALSE]
    /\ nAdds = 0
    /\ Quiescent(heap)
    /\ MadeByNew

TokNext ==
    \/ \E e \in TokPhrases : Add("A", <<e>>)
    \/ \E rs \in TokTexts : FindAll(rs)

SpecTok == TokInit /\ [][TokNext]_vars

RECURSIVE Pushes(_, _, _)
\* the pairs that the iterations off, off + 1, ... of the scan of rs hand to
\* shift, in order, st being the state of the scan before iteration off
Pushes(st, off, rs) ==
    IF off >= Len(rs) THEN <<>>
    ELSE LET nx == scanStep(st, off, rs, <<>>)
         IN  (IF nx.pairs # st.pairs THEN <<nx.pairs.s[Len(nx.pairs.s)]>> ELSE <<>>)
                 \o Pushes(nx, off + 1, rs)

\* the spans [i, j) of the maximal runs of non-separators of rs that are
\* followed by a separator
ClosedWords(rs) ==
    {<<i, j>> \in (0 .. Len(rs)) \X (0 .. Len(rs)) :
        /\ i < j /\ j < Len(rs)
        /\ \A k \in i + 1 .. j : ~IsSeparator(rs[k])
        /\ i = 0 \/ IsSeparator(rs[i])
        /\ IsSeparator(rs[j + 1])}

(***************************************************************************)
(* The specification of overlapping phrases: one group holding phrases    *)
(* that nest in each other, searched in texts that hold them.              *)
(***************************************************************************)
\* "b", "a b", "c a b", "A B"
OvPhrases == {<<98>>, <<97, 32, 98>>, <<99, 32, 97, 32, 98>>, <<65, 32, 66>>}

OvBatches ==
    {<<e>> : e \in OvPhrases} \cup {<<<<98>>, <<97, 32, 98>>, <<99, 32, 97, 32, 98>>>>}

\* "c a b."
OvTxNest == <<99, 32, 97, 32, 98, 46>>

\* "x c a B, b a b."
OvTxTwice == <<120, 32, 99, 32, 97, 32, 66, 44, 32, 98, 32, 97, 32, 98, 46>>

\* "b."
OvTxFirst == <<98, 46>>

\* "a b c a b"
OvTxOpen == <<97, 32, 98, 32, 99, 32, 97, 32, 98>>

OvTexts == {OvTxNest, OvTxTwice, OvTxFirst, OvTxOpen}

OvInit ==
    /\ groups = New(<<"A">>).groups
    /\ heap = New(<<"A">>).heap
    /\ input = <<>>
    /\ result = <<>>
    /\ lastOp = [op |-> "New", name |-> "", repeat |-> FALSE]
    /\ nAdds = 0
    /\ Quiescent(heap)
    /\ MadeByNew

OvNext ==
    \/ \E ents \in OvBatches : Add("A", ents)
    \/ \E rs \in OvTexts : FindAll(rs)

SpecOverlap == OvInit /\ [][OvNext]_vars

(***************************************************************************)
(* The specification of the stored phrases: one caller adds phrases, some  *)
(* twice and in two casings, searches and saves.                           *)
(***************************************************************************)
StBatches == {<<PhAb>>, <<PhABUpper, PhAb>>, <<PhAb, PhAb>>}

StTexts == {TxXABDot, TxMixed}

StNext ==
    \/ \E name \in Names, ents \in StBatches : Add(name, ents)
    \/ \E rs \in StTexts : FindAll(rs)
    \/ Save

SpecStore == Init /\ [][StNext]_vars

(***************************************************************************)
(* The specification of the window: FindAll on texts of up to MaxWords     *)
(* words, more than the window is made for.                                *)
(***************************************************************************)
MaxWords == 22

\* "a a a ... a " with n words
WordsText(n) == [i \in 1 .. 2 * n |-> IF i % 2 = 1 THEN 97 ELSE 32]

WinTexts == {WordsText(n) : n \in 0 .. MaxWords}

\* "a", "a a", "a a a"
WinPhrases == {<<97>>, <<97, 32, 97>>, <<97, 32, 97, 32, 97>>}

WinInit ==
    /\ groups = New(<<"A">>).groups
    /\ heap = New(<<"A">>).heap
    /\ input = <<>>
    /\ result = <<>>
    /\ lastOp = [op |-> "New", name |-> "", repeat |-> FALSE]
    /\ nAdds = 0
    /\ Quiescent(heap)
    /\ MadeByNew

WinNext ==
    \/ \E e \in WinPhrases : Add("A", <<e>>)
    \/ \E rs \in WinTexts : FindAll(rs)

SpecWindow == WinInit /\ [][WinNext]_vars

\* the window after the iterations 0, ..., off - 1 of the scan of rs
WindowAt(rs, off) == scan(scanInit, 0, off, rs, <<>>).pairs

(***************************************************************************)
(* The specification of the bucket keys: one group holding phrases that    *)
(* share or nearly share a key, among them phrases of runes that are no    *)
(* valid code points (a []rune holds any int32).                           *)
(***************************************************************************)
\* "abcd" and "abce"; U+D800 and U+D801 (surrogate halves); "ab" and "aB";
\* "a" and "A"; "abc"; "abc" and "ABC"
KeyBatches ==
    {<<<<97, 98, 99, 100>>, <<97, 98, 99, 101>>>>, <<<<55296>>, <<55297>>>>,
     <<<<97, 98>>, <<97, 66>>>>, <<<<97>>, <<65>>>>, <<<<97, 98, 99>>>>,
     <<<<97, 98, 99>>, <<65, 66, 67>>>>}

\* "", "x abce <U+D801> ", "x ab abc ", "x A abcd.", "x <U+D800> a "
KeyTexts ==
    {<<>>, <<120, 32, 97, 98, 99, 101, 32, 55297, 32>>,
     <<120, 32, 97, 98, 32, 97, 98, 99, 32>>,
     <<120, 32, 65, 32, 97, 98, 99, 100, 46>>,
     <<120, 32, 55296, 32, 97, 32>>}

KeyInit == WinInit

KeyNext ==
    \/ \E ents \in KeyBatches : Add("A", ents)
    \/ \E rs \in KeyTexts : FindAll(rs)

SpecKey == KeyInit /\ [][KeyNext]_vars

\* the spans <<left, right>> that the scan of rs looks up: from the start of
\* a word pushed to the end of a later or the same word, the first word
\* leaving none when it closes, of at most MaxEntityLen code points
Candidates(rs) ==
    LET ws == Pushes(scanInit, 0, rs)
    IN  {<<ws[i][1], ws[j][2]>> : <<i, j>> \in
            {x \in (1 .. Len(ws)) \X (2 .. Len(ws)) :
                x[1] <= x[2] /\ ws[x[2]][2] - ws[x[1]][1] <= MaxEntityLen}}

(***************************************************************************)
(* The specification of the alignment of matches: one group holding        *)
(* phrases that start or end with a separator, searched in every text of   *)
(* the tokenizer's specification.                                          *)
(***************************************************************************)
\* "a" and "a."; ".a" and "a "; "a.a", " a" and " "
AlignBatches ==
    {<<<<97>>, <<97, 46>>>>, <<<<46, 97>>, <<97, 32>>>>,
     <<<<97, 46, 97>>, <<32, 97>>, <<32>>>>}

AlignInit == TokInit

AlignNext ==
    \/ \E ents \in AlignBatches : Add("A", ents)
    \/ \E rs \in TokTexts : FindAll(rs)

SpecAlign == AlignInit /\ [][AlignNext]_vars

(***************************************************************************)
(* The specification of empty phrases: Add is called with batches that     *)
(* hold an empty phrase, on a Store made by New or on the zero Store.      *)
(***************************************************************************)
\* "ab"; "ab" and ""; "" and "ab"; ""; "AB" and "ab"
EmptyBatches ==
    {<<PhAb>>, <<PhAb, <<>>>>, <<<<>>, PhAb>>, <<<<>>>>, <<PhABUpper, PhAb>>}

EmptyTexts == {TxEmpty, TxXABDot, TxMixed}

EmptyNext ==
    \/ \E name \in Names, ents \in EmptyBatches : Add(name, ents)
    \/ \E rs \in EmptyTexts : FindAll(rs)

SpecEmpty == ZeroInit /\ [][EmptyNext]_vars

(***************************************************************************)
(* Properties of the sequential specification.                             *)
(***************************************************************************)
\* the phrases stored in the group called name
Stored(name) == PhrasesOf(GroupOf(groups, heap, name))

\* a and b are equal code point by code point after lowercasing both
CaseEq(a, b) == LowerSeq(a) = LowerSeq(b)

\* the matches reported for every group, as a set
AllMatches ==
    UNION {{<<G, result[G][k]>> : k \in 1 .. Len(result[G])} : G \in DOMAIN result}

\* P occurs in T at offset i as a sequence of whole words: it begins and ends
\* with a word character and is bounded by a separator or by the end of T on
\* both sides
OccursAt(P, T, i) ==
    /\ i + Len(P) <= Len(T)
    /\ CaseEq(Slice(T, i, i + Len(P)), P)
    /\ ~IsSeparator(P[1]) /\ ~IsSeparator(P[Len(P)])
    /\ (i = 0 \/ IsSeparator(T[i]))
    /\ (i + Len(P) = Len(T) \/ IsSeparator(T[i + Len(P) + 1]))

\* C1: (completeness) after FindAll(T), for every phrase P stored in a group G
\* and every offset where P occurs in T as a sequence of whole words bounded
\* by separators or by the ends of T, the matches of G hold the slice of T at
\* that offset.
C1_Completeness ==
    lastOp.op = "FindAll" =>
        \A G \in DOMAIN groups : \A P \in Stored(G) : \A i \in 0 .. Len(input) :
            OccursAt(P, input, i) =>
                <<G, [Text |-> Slice(input, i, i + Len(P)), Offset |-> i]>> \in AllMatches

C4_LengthBound ==
    \A x \in AllMatches :
        LET G == x[1]
            m == x[2]
        IN  /\ Len(m.Text) >= 1
            /\ Len(m.Text) <= MaxEntityLen
            /\ Len(m.Text) <= GroupOf(groups, heap, G).maxLen
            /\ \A P \in Stored(G) : Len(P) > MaxEntityLen => ~CaseEq(P, m.Text)

\* a phrase of 31 runes is stored in a group, the text that holds it as a
\* sequence of whole words has been searched, and the group has no match
C4_Witness ==
    /\ lastOp.op = "FindAll"
    /\ input = TxLong31
    /\ \E G \in DOMAIN groups :
          /\ PhLong31 \in Stored(G)
          /\ GroupOf(groups, heap, G).maxLen = 31
          /\ OccursAt(PhLong31, input, 2)
          /\ result[G] = <<>>

\* C5: (groups are independent) an Add to a group A leaves every other group
\* B in the store with the same matches on every text, and no match of B is
\* a phrase that only another group stores.
C5_GroupsIndependent ==
    /\ [][lastOp'.op = "Add" =>
            \A B \in DOMAIN groups \ {lastOp'.name} :
                /\ B \in DOMAIN groups'
                /\ \A T \in Texts :
                      Find(GroupOf(groups', heap', B), T) = Find(GroupOf(groups, heap, B), T)]_vars
    /\ [](\A x \in AllMatches : \A A \in DOMAIN groups \ {x[1]} : \A P \in Stored(A) :
              CaseEq(P, x[2].Text) => \E Q \in Stored(x[1]) : CaseEq(Q, P))

\* an Add to A has run while B holds phrases, and B's phrases differ from A's
C5_Witness ==
    /\ lastOp.op = "Add"
    /\ lastOp.name = "A"
    /\ DOMAIN groups = {"A", "B"}
    /\ Stored("B") # {}
    /\ Stored("A") # {}
    /\ Stored("A") \cap Stored("B") = {}

\* C6: (idempotence) FindAll leaves the store as it is, and a FindAll that
\* follows a FindAll of the same text returns the same matches.
C6_Idempotence ==
    [][lastOp'.op = "FindAll" =>
          /\ groups' = groups
          /\ heap' = heap
          /\ (lastOp.op = "FindAll" /\ input' = input => result' = result)]_vars

\* the same text has been searched twice in a row, in a store of two groups
\* that both have matches
C6_Witness ==
    /\ lastOp.op = "FindAll"
    /\ lastOp.repeat
    /\ DOMAIN result = {"A", "B"}
    /\ result["A"] # <<>>
    /\ result["B"] # <<>>

\* C11: (FindAll never fails) FindAll can be called on every text, the empty
\* one included, in every store, one with no groups included; its result has
\* exactly one key per registered group, each with a list of matches that may
\* be empty, and indexing the result with a name that is no group's gives the
\* empty list.
C11_FindAllTotal ==
    /\ \A rs \in Texts : \A order \in RangeOrders(DOMAIN groups) :
          LET res == FindAllIn(order, groups, heap, rs)
          IN  /\ DOMAIN res = DOMAIN groups
              /\ \A n \in DOMAIN res : res[n] \in Seq([Text : Seq(Nat), Offset : Nat])
              /\ \A n \in Names \ DOMAIN groups : MapGet(res, n) = <<>>
    /\ lastOp.op = "FindAll" =>
          /\ DOMAIN result = DOMAIN groups
          /\ \A n \in Names \ DOMAIN groups : MapGet(result, n) = <<>>

\* the empty text has been searched in a store that has no group
C11_Witness ==
    /\ lastOp.op = "FindAll"
    /\ input = TxEmpty
    /\ DOMAIN groups = {}
    /\ result = <<>>

\* C12: (Add on a Store that was never initialized) an Add on a Store whose
\* groups map is nil ends in a panic, and it adds nothing: the Store has no
\* group and no phrase before the call and after it.
C12_NilStorePanics ==
    /\ [][(nilMap /\ nAdds' = nAdds + 1) =>
              /\ panicked' # ""
              /\ groups' = groups
              /\ heap' = heap]_vars
    /\ [](nilMap => (groups = <<>> /\ heap = <<>>))

\* Add has been called on the zero Store and has panicked
C12_Witness ==
    /\ nilMap
    /\ lastOp.op = "Add"
    /\ panicked = "assignment to entry in nil map"
    /\ groups = <<>>

\* C13: (save/load round trip) when a Store is saved and the directory is
\* loaded with FromDir, no file operation failing, FromDir returns a Store
\* whose set of group names is the original's and whose FindAll result on
\* every text is the original's.
C13_RoundTrip ==
    (/\ lastOp.op = "FromDir"
     /\ loaded.after.op = "Save" /\ loaded.after.name = ""
     /\ loaded.failed = {}) =>
        /\ loaded.ok
        /\ DOMAIN loaded.groups = DOMAIN groups
        /\ \A T \in Texts :
              \A o1 \in RangeOrders(DOMAIN groups) :
              \A o2 \in RangeOrders(DOMAIN loaded.groups) :
                  FindAllIn(o2, loaded.groups, loaded.heap, T)
                      = FindAllIn(o1, groups, heap, T)

\* C14: (partial failure on bulk load) in a FromDir over several files, a
\* file that cannot be opened or read does not stop the others from being
\* loaded: every line of every other file is added to the Store being built;
\* FromDir reports success only if at least one file was loaded, and when it
\* does not succeed the error it returns reports each of the failures.
C14_PartialFailure ==
    lastOp.op = "FromDir" =>
        /\ \A f \in DOMAIN disk \ loaded.failed :
              LET lines == ScanLines(disk[f], 1, <<>>)
              IN  \A i \in 1 .. Len(lines) :
                      Len(lines[i]) > 0 =>
                          /\ f \in DOMAIN loaded.groups
                          /\ lines[i] \in PhrasesOf(GroupOf(loaded.groups, loaded.heap, f))
        /\ loaded.ok => (loaded.count >= 1 /\ loaded.failed # DOMAIN disk)
        /\ ~loaded.ok => \A f \in loaded.failed : loaded.err[2] = f

\* C15: (tokenizer) the scan of a text pushes onto the window, in order,
\* exactly the spans [start, end) of the maximal runs of non-separators that
\* a separator follows, a run that starts at offset 0 included; the word at
\* the end of a text that no separator follows is not pushed, and no match
\* ends at the end of the text.
C15_Tokenizer ==
    lastOp.op = "FindAll" =>
        LET ps == Pushes(scanInit, 0, input)
        IN  /\ {ps[k] : k \in 1 .. Len(ps)} = ClosedWords(input)
            /\ \A k \in 1 .. Len(ps) - 1 : ps[k][2] < ps[k + 1][1]
            /\ \A x \in AllMatches : x[2].Offset + Len(x[2].Text) < Len(input)

\* "a a" is stored and "a a" has been searched: the word at offset 0 is the
\* only one pushed, the last word is not, and nothing is matched
C15_Witness ==
    /\ lastOp.op = "FindAll"
    /\ input = <<97, 32, 97>>
    /\ <<97, 32, 97>> \in Stored("A")
    /\ Pushes(scanInit, 0, input) = <<<<0, 1>>>>
    /\ result["A"] = <<>>

\* the group objects of the store, listed in the given order of their names
GroupList(order) == [i \in 1 .. Len(order) |-> GroupOf(groups, heap, order[i])]

\* C17: (FindAll against a single pass) for every registered group, FindAll
\* returns the match list that one run of find over the input with all the
\* registered groups, listed in any order, produces for that group.
C17_SinglePass ==
    lastOp.op = "FindAll" =>
        \A order \in RangeOrders(DOMAIN groups) :
            LET single == find(input, GroupList(order))
            IN  /\ DOMAIN single \subseteq DOMAIN groups
                /\ \A n \in DOMAIN groups : result[n] = MapGet(single, n)

\* a text has been searched in a store of two groups whose match lists are
\* not empty and differ
C17_Witness ==
    /\ lastOp.op = "FindAll"
    /\ DOMAIN groups = {"A", "B"}
    /\ result["A"] # <<>>
    /\ result["B"] # <<>>
    /\ result["A"] # result["B"]

\* the places <<bucket key, index>> of the phrases stored in g
Places(g) ==
    UNION {{<<h, i>> : i \in 1 .. Len(g.entities[h])} : h \in DOMAIN g.entities}

\* how many phrases stored in g equal the span after lowercasing
StoredEq(g, span) ==
    Cardinality({x \in Places(g) : CaseEq(g.entities[x[1]][x[2]], span)})

\* how many matches of the list ms are the span at the offset
Reported(ms, span, off) ==
    Cardinality({k \in 1 .. Len(ms) : ms[k] = [Text |-> span, Offset |-> off]})

\* C18: (no suppression of overlapping matches) when a word other than the
\* first one closes, every candidate that runs from the start of a word of
\* the window to the end of the word that closes, and is not longer than
\* MaxEntityLen, is reported once for every stored phrase of the group that
\* it verifies against, whether or not the candidates overlap or nest:
\* nothing is filtered out and nothing is deduplicated.
C18_NoSuppression ==
    lastOp.op = "FindAll" =>
        LET ws == Pushes(scanInit, 0, input)
        IN  \A j \in 2 .. Len(ws) : \A i \in 1 .. j :
                LET left == ws[i][1]
                    right == ws[j][2]
                    span == Slice(input, left, right)
                IN  right - left <= MaxEntityLen =>
                        \A G \in DOMAIN groups :
                            Reported(result[G], span, left)
                                = StoredEq(GroupOf(groups, heap, G), span)

\* "b", "a b" and "c a b" are stored and "c a b." has been searched: the
\* three phrases end at the same word and all three are reported
C18_Witness ==
    /\ lastOp.op = "FindAll"
    /\ input = OvTxNest
    /\ Stored("A") = {<<98>>, <<97, 32, 98>>, <<99, 32, 97, 32, 98>>}
    /\ result["A"] = <<[Text |-> <<98>>, Offset |-> 4],
                       [Text |-> <<97, 32, 98>>, Offset |-> 2],
                       [Text |-> <<99, 32, 97, 32, 98>>, Offset |-> 0]>>

\* how many of the phrases stored in g are e, code point by code point
StoredExact(g, e) ==
    Cardinality({x \in Places(g) : g.entities[x[1]][x[2]] = e})

\* how often e was passed to Add for the group n
Added(n, e) == IF <<n, e>> \in DOMAIN log THEN log[<<n, e>>] ELSE 0

RECURSIVE AddedEq(_, _, _)
\* how many of the phrases passed to Add for the group n, among those of the
\* set S of log entries, equal the span after lowercasing
AddedEq(S, n, span) ==
    IF S = {} THEN 0
    ELSE LET x == CHOOSE y \in S : TRUE
         IN  (IF x[1] = n /\ CaseEq(x[2], span) THEN log[x] ELSE 0)
                 + AddedEq(S \ {x}, n, span)

\* C19: (phrases are stored as added) in every state reached by New, Add,
\* FindAll and Save, every group of the log exists and each group stores
\* every phrase exactly as often as it was passed to Add for the group, in
\* the casing passed; a step that is not an Add leaves the groups and their
\* phrases as they are and no step removes a group; and a candidate of the
\* search is reported once for every phrase passed to Add that equals it
\* after lowercasing.
C19_StoredAsAdded ==
    /\ [](/\ \A x \in DOMAIN log : x[1] \in DOMAIN groups
          /\ \A n \in DOMAIN groups :
                \A e \in PhrasesOf(GroupOf(groups, heap, n))
                            \cup {x[2] : x \in {y \in DOMAIN log : y[1] = n}} :
                    StoredExact(GroupOf(groups, heap, n), e) = Added(n, e)
          /\ lastOp.op = "FindAll" =>
                LET ws == Pushes(scanInit, 0, input)
                IN  \A j \in 2 .. Len(ws) : \A i \in 1 .. j : \A G \in DOMAIN groups :
                        LET span == Slice(input, ws[i][1], ws[j][2])
                        IN  Len(span) <= MaxEntityLen =>
                                Reported(result[G], span, ws[i][1])
                                    = AddedEq(DOMAIN log, G, span))
    /\ [][/\ DOMAIN groups \subseteq DOMAIN groups'
          /\ lastOp'.op # "Add" => (groups' = groups /\ heap' = heap)]_vars

\* "AB" and "ab" were added to A, "ab" once more, the store was saved, and
\* "x AB." has been searched: the one occurrence has three records
C19_Witness ==
    /\ lastOp.op = "FindAll"
    /\ input = TxXABDot
    /\ disk # <<>>
    /\ Added("A", PhAb) = 2
    /\ Added("A", PhABUpper) = 1
    /\ Len(result["A"]) = 3

\* the largest number of the set S of naturals, 0 for the empty set
MaxOf(S) == IF S = {} THEN 0 ELSE CHOOSE m \in S : \A x \in S : x <= m

\* C20: (index invariant) after any sequence of Add calls, every phrase
\* stored in a group under the bucket key k has hash(phrase) = k, the maxLen
\* of the group is the largest length of its stored phrases, 0 when it has
\* none, and no step makes the maxLen of a group smaller.
C20_IndexInvariant ==
    /\ [](\A n \in DOMAIN groups :
             LET g == GroupOf(groups, heap, n)
             IN  /\ \A x \in Places(g) : hash(g.entities[x[1]][x[2]]) = x[1]
                 /\ g.maxLen = MaxOf({Len(e) : e \in PhrasesOf(g)}))
    /\ [][\A n \in DOMAIN groups :
             /\ n \in DOMAIN groups'
             /\ GroupOf(groups', heap', n).maxLen >= GroupOf(groups, heap, n).maxLen]_vars

\* A holds the phrase of 31 runes and "ab" in two buckets and its maxLen is
\* 31, B holds nothing and its maxLen is 0
C20_Witness ==
    /\ lastOp.op = "Add"
    /\ DOMAIN groups = {"A", "B"}
    /\ DOMAIN GroupOf(groups, heap, "A").entities = {hash(PhAb), hash(PhLong31)}
    /\ GroupOf(groups, heap, "A").maxLen = 31
    /\ GroupOf(groups, heap, "B").maxLen = 0

\* the last n elements of the sequence s, all of them when it has fewer
LastN(s, n) == IF Len(s) <= n THEN s ELSE SubSeq(s, Len(s) - n + 1, Len(s))

\* C21: (bounded sliding window) at every point of a scan the window holds
\* at most 20 spans, and it holds the spans pushed so far, in the order
\* pushed, without the oldest ones once more than 20 were pushed.
C21_BoundedWindow ==
    lastOp.op = "FindAll" =>
        \A off \in 0 .. Len(input) :
            LET w == WindowAt(input, off).s
            IN  /\ Len(w) <= WindowCap
                /\ w = LastN(Pushes(scanInit, 0, Slice(input, 0, off)), WindowCap)

\* the offsets at which the scan of rs has just pushed a closed word
PushOffsets(rs) ==
    {off \in 1 .. Len(rs) : WindowAt(rs, off) # WindowAt(rs, off - 1)}

\* C22: (monotonic early exit is lossless) the spans of the window are not
\* empty and each one ends below the start of the next one, so the length
\* of the candidate grows strictly as the walk goes to older spans; the walk,
\* which stops at the first candidate longer than MaxEntityLen, has then
\* passed every span of the window whose candidate is not longer than
\* MaxEntityLen, and each such candidate is reported once for every stored
\* phrase that it equals after lowercasing.
C22_LosslessEarlyExit ==
    lastOp.op = "FindAll" =>
        \A off \in PushOffsets(input) :
            LET w == WindowAt(input, off).s
                right == w[Len(w)][2]
            IN  /\ \A k \in 1 .. Len(w) : w[k][1] < w[k][2]
                /\ \A k \in 1 .. Len(w) - 1 :
                      /\ w[k][2] < w[k + 1][1]
                      /\ right - w[k][1] > right - w[k + 1][1]
                /\ \A i \in 1 .. Len(w) :
                      right - w[i][1] <= MaxEntityLen =>
                          /\ \A k \in i .. Len(w) : ~tooLong(w[k][1], right)
                          /\ walkable(w) =>
                                Reported(result["A"], Slice(input, w[i][1], right), w[i][1])
                                    = StoredEq(GroupOf(groups, heap, "A"),
                                               Slice(input, w[i][1], right))

\* "a a a" is stored and a text of 18 words has been searched: when the last
\* word closes the walk stops at a candidate of 31 code points with older
\* spans still in the window, and "a a a" is reported for the last three
\* words
C22_Witness ==
    /\ lastOp.op = "FindAll"
    /\ input = WordsText(18)
    /\ <<97, 32, 97, 32, 97>> \in Stored("A")
    /\ LET w == WindowAt(input, Len(input)).s
       IN  /\ Len(w) = 18
           /\ tooLong(w[3][1], w[18][2])
           /\ ~tooLong(w[4][1], w[18][2])
    /\ \E k \in 1 .. Len(result["A"]) :
          result["A"][k] = [Text |-> <<97, 32, 97, 32, 97>>, Offset |-> 30]

\* the state of a scan of rs whose window has room for every word of rs, so
\* that shift never drops a span
scanInit_unbounded(rs) ==
    [pairs |-> [s |-> <<>>, cap |-> Len(rs) + 1], start |-> 0,
     prevSpace |-> TRUE, results |-> <<>>]

\* the elements of the sequence s
Elems(s) == {s[k] : k \in 1 .. Len(s)}

\* C23: (the capacity of the window does not limit matching) with
\* MaxEntityLen 30 and a window made with capacity 20, whenever a word
\* closes every word pushed so far that starts a candidate of at most
\* MaxEntityLen code points ending at that word is still in the window, and
\* the matches of the group are those of a scan whose window never drops a
\* span, in the same order.
C23_CapacityNoLimit ==
    lastOp.op = "FindAll" =>
        /\ \A off \in PushOffsets(input) :
              LET w == WindowAt(input, off).s
                  ws == Pushes(scanInit, 0, Slice(input, 0, off))
                  right == w[Len(w)][2]
              IN  \A i \in 1 .. Len(ws) :
                      right - ws[i][1] <= MaxEntityLen => ws[i] \in Elems(w)
        /\ result["A"] = MapGet(scan(scanInit_unbounded(input), 0, Len(input), input,
                                     <<GroupOf(groups, heap, "A")>>).results, "A")

\* "a a a" is stored and a text of 22 words has been searched: the first
\* word has left the window before the last word closes, and "a a a" is
\* reported for the last three words
C23_Witness ==
    /\ lastOp.op = "FindAll"
    /\ input = WordsText(22)
    /\ <<97, 32, 97, 32, 97>> \in Stored("A")
    /\ <<0, 1>> \notin Elems(WindowAt(input, Len(input)).s)
    /\ \E k \in 1 .. Len(result["A"]) :
          result["A"][k] = [Text |-> <<97, 32, 97, 32, 97>>, Offset |-> 38]

\* spans of 99, 100, 999 and 1000 runes
LongSpans == {[i \in 1 .. n |-> 97] : n \in {99, 100, 999, 1000}}

\* the spans the keys are compared on: the stored phrases, the spans looked
\* up in the text searched, and the long spans
BucketSpans ==
    Stored("A") \cup {Slice(input, c[1], c[2]) : c \in Candidates(input)} \cup LongSpans

\* the first min(3, len) code points of a, lowercased
LowerPrefix(a) == [i \in 1 .. (IF Len(a) < 3 THEN Len(a) ELSE 3) |-> ToLower(a[i])]

\* the same, every rune that is no valid code point counting as U+FFFD
StringPrefix(a) == [i \in 1 .. Len(LowerPrefix(a)) |-> RuneString(LowerPrefix(a)[i])]

\* spans that are equal after lowercasing share a key; every phrase of the
\* bucket fetched for a span looked up has the length of the span, and the
\* scan of the bucket yields one match for every phrase of the bucket that
\* equals the span after lowercasing
BucketsComplete ==
    /\ \A a, b \in BucketSpans : CaseEq(a, b) => hash(a) = hash(b)
    /\ \A c \in Candidates(input) :
          LET span == Slice(input, c[1], c[2])
              ents == MapGet(GroupOf(groups, heap, "A").entities, hash(span))
          IN  /\ \A k \in 1 .. Len(ents) : Len(ents[k]) = Len(span)
              /\ Len(bucketScan(ents, 1, input, c[1], c[2]))
                    = Cardinality({k \in 1 .. Len(ents) : CaseEq(ents[k], span)})

\* C24 as stated: two non-empty spans have the same bucket key if and only
\* if they have the same length and the same lowercased first min(3, len)
\* code points; hence spans equal after lowercasing share a bucket, every
\* phrase of the bucket fetched for a candidate has the candidate's length,
\* and the length recheck neither discards a phrase nor stops the scan of
\* the bucket early.
C24_KeysExact ==
    /\ \A a, b \in BucketSpans :
          hash(a) = hash(b) <=> (Len(a) = Len(b) /\ LowerPrefix(a) = LowerPrefix(b))
    /\ BucketsComplete

\* C24: (bucket keys discriminate by length and prefix) two non-empty spans
\* have the same bucket key if and only if they have the same length and the
\* same lowercased first min(3, len) code points, where every rune that is no
\* valid code point counts as U+FFFD; hence spans equal after lowercasing
\* share a bucket, every phrase of the bucket fetched for a candidate has the
\* candidate's length, and the length recheck neither discards a phrase nor
\* stops the scan of the bucket early.
C24_BucketKeys ==
    /\ \A a, b \in BucketSpans :
          hash(a) = hash(b) <=> (Len(a) = Len(b) /\ StringPrefix(a) = StringPrefix(b))
    /\ BucketsComplete

\* "abcd", "abce", U+D800 and U+D801 are stored, the first two in one bucket
\* and the last two in another, and "x abce <U+D801> " has been searched:
\* each bucket is scanned whole and yields the one phrase that matches
C24_Witness ==
    /\ lastOp.op = "FindAll"
    /\ input = <<120, 32, 97, 98, 99, 101, 32, 55297, 32>>
    /\ Stored("A") = {<<97, 98, 99, 100>>, <<97, 98, 99, 101>>, <<55296>>, <<55297>>}
    /\ Len(GroupOf(groups, heap, "A").entities[hash(<<97, 98, 99, 101>>)]) = 2
    /\ Len(GroupOf(groups, heap, "A").entities[hash(<<55297>>)]) = 2
    /\ result["A"] = <<[Text |-> <<97, 98, 99, 101>>, Offset |-> 2],
                       [Text |-> <<55297>>, Offset |-> 7]>>

\* C25: (no lookup while the window holds a single span) when the first
\* word of the input closes nothing is looked up: the scan has no result
\* yet, no match ends at the end of the first word, and so a stored
\* one-word phrase that is the first word of the input is not reported
\* there; the first word starts matches of several words only, and a word
\* that closes later is reported once for every stored phrase that it equals
\* after lowercasing.
C25_FirstWordSkipped ==
    lastOp.op = "FindAll" =>
        LET ws == Pushes(scanInit, 0, input)
            g == GroupOf(groups, heap, "A")
        IN  /\ \A off \in PushOffsets(input) :
                  Len(WindowAt(input, off).s) = 1
                      => scan(scanInit, 0, off, input, <<g>>).results = <<>>
            /\ Len(ws) >= 1 =>
                  /\ \A k \in 1 .. Len(result["A"]) :
                        result["A"][k].Offset + Len(result["A"][k].Text) # ws[1][2]
                  /\ Reported(result["A"], Slice(input, ws[1][1], ws[1][2]), ws[1][1]) = 0
            /\ \A j \in 2 .. Len(ws) :
                  Reported(result["A"], Slice(input, ws[j][1], ws[j][2]), ws[j][1])
                      = StoredEq(g, Slice(input, ws[j][1], ws[j][2]))

\* "a" is stored and "a a " has been searched: the second "a" is reported
\* and the first one is not
C25_Witness ==
    /\ lastOp.op = "FindAll"
    /\ input = <<97, 32, 97, 32>>
    /\ Stored("A") = {<<97>>}
    /\ result["A"] = <<[Text |-> <<97>>, Offset |-> 2]>>

\* r is punctuation or whitespace
PunctOrSpace(r) == r \in PunctRunes \cup SpaceRunes

\* C26: (matches are aligned to word boundaries) every reported match is the
\* span of the input at its offset, starts at a rune that is no separator
\* and that a separator or the start of the input precedes, and ends at a
\* rune that is no separator and that a separator follows; so a stored phrase
\* whose first or last rune is punctuation or whitespace is never reported.
C26_WordAligned ==
    lastOp.op = "FindAll" =>
        \A k \in 1 .. Len(result["A"]) :
            LET l == result["A"][k].Offset
                r == l + Len(result["A"][k].Text)
            IN  /\ l < r
                /\ r < Len(input)
                /\ result["A"][k].Text = Slice(input, l, r)
                /\ ~PunctOrSpace(input[l + 1])
                /\ l = 0 \/ PunctOrSpace(input[l])
                /\ ~PunctOrSpace(input[r])
                /\ PunctOrSpace(input[r + 1])
                /\ \A e \in Stored("A") :
                      (PunctOrSpace(e[1]) \/ PunctOrSpace(e[Len(e)]))
                          => ~CaseEq(e, result["A"][k].Text)

\* "a" and "a." are stored and "a a." has been searched: the second "a" is
\* reported, and "a.", which the text holds at the same offset, is not
C26_Witness ==
    /\ lastOp.op = "FindAll"
    /\ input = <<97, 32, 97, 46>>
    /\ Stored("A") = {<<97>>, <<97, 46>>}
    /\ result["A"] = <<[Text |-> <<97>>, Offset |-> 2]>>

\* C28: (empty phrases are rejected without harm) no group ever stores an
\* empty phrase; loading from a reader skips the empty lines; and a call of
\* Add that aborts, on an empty phrase or on a Store that was never
\* initialized, leaves the groups, their phrases and their maxLen as they
\* were before the call and leaves neither the store's lock nor a group's
\* lock held.
C28_EmptyRejected ==
    /\ [](\A n \in DOMAIN groups : <<>> \notin Stored(n))
    /\ [](\A n \in Names :
             LET st == AddFromReader(ScanLines(<<10, 97, 98, 10, 10, 65, 66>>, 1, <<>>), 1,
                                     [groups |-> groups, heap |-> heap], n)
                 on == AddStore(AddStore(groups, heap, n, <<PhAb>>).groups,
                                AddStore(groups, heap, n, <<PhAb>>).heap, n, <<PhABUpper>>)
             IN  nilMap \/ (st.groups = on.groups /\ st.heap = on.heap))
    /\ [][(panicked = "" /\ panicked' # "") =>
              /\ groups' = groups
              /\ heap' = heap
              /\ slock' = FreeLock
              /\ \A i \in 1 .. Len(glock') : glock'[i] = FreeLock]_vars

(***************************************************************************)
(* The scenario of TestFind and of the README's sample: the calls of the   *)
(* test, each made at most once and in any order, and FindAll on the       *)
(* documents of the test and of the sample.                                *)
(***************************************************************************)
\* "San Francisco, USA"
EntSanFrancisco ==
    <<83, 97, 110, 32, 70, 114, 97, 110, 99, 105, 115, 99, 111, 44, 32, 85, 83, 65>>

\* "golang developer"
EntGolangDeveloper ==
    <<103, 111, 108, 97, 110, 103, 32, 100, 101, 118, 101, 108, 111, 112, 101, 114>>

\* "PHP"
EntPHP ==
    <<80, 72, 80>>

\* "本語"
EntHan ==
    <<26412, 35486>>

\* "PRC"
EntPRC ==
    <<80, 82, 67>>

\* "golang"
EntGolang ==
    <<103, 111, 108, 97, 110, 103>>

\* TestFind's document up to "or PDX."
\* "日 本語. jack was a golang developer from sydney, for someone. San Francisco, USA... Or so they say. Maybe PHP, or PDX."
DocScenario ==
    <<26085, 32, 26412, 35486, 46, 32, 106, 97, 99, 107, 32, 119, 97, 115, 32, 97, 32,
      103, 111, 108, 97, 110, 103, 32, 100, 101, 118, 101, 108, 111, 112, 101, 114, 32,
      102, 114, 111, 109, 32, 115, 121, 100, 110, 101, 121, 44, 32, 102, 111, 114, 32,
      115, 111, 109, 101, 111, 110, 101, 46, 32, 83, 97, 110, 32, 70, 114, 97, 110, 99,
      105, 115, 99, 111, 44, 32, 85, 83, 65, 46, 46, 46, 32, 79, 114, 32, 115, 111, 32,
      116, 104, 101, 121, 32, 115, 97, 121, 46, 32, 77, 97, 121, 98, 101, 32, 80, 72,
      80, 44, 32, 111, 114, 32, 80, 68, 88, 46>>

\* the README's document
\* "日 本語. Jack was a Golang developer from sydney. San Francisco, USA... Or so they say."
DocReadme ==
    <<26085, 32, 26412, 35486, 46, 32, 74, 97, 99, 107, 32, 119, 97, 115, 32, 97, 32,
      71, 111, 108, 97, 110, 103, 32, 100, 101, 118, 101, 108, 111, 112, 101, 114, 32,
      102, 114, 111, 109, 32, 115, 121, 100, 110, 101, 121, 46, 32, 83, 97, 110, 32,
      70, 114, 97, 110, 99, 105, 115, 99, 111, 44, 32, 85, 83, 65, 46, 46, 46, 32, 79,
      114, 32, 115, 111, 32, 116, 104, 101, 121, 32, 115, 97, 121, 46>>

\* the documents searched
ScenarioDocs == {DocScenario, DocReadme}

\* the Add calls of TestFind and of the README's sample
ScenarioCalls ==
    {[name |-> "locations", ents |-> <<EntSanFrancisco>>],
     [name |-> "jobTitles", ents |-> <<EntGolangDeveloper>>],
     [name |-> "skills", ents |-> <<EntPHP, EntHan, EntPRC>>],
     [name |-> "skills", ents |-> <<EntHan, EntGolang>>]}

\* store := New("locations", "jobTitles")
ScenarioInit ==
    /\ groups = New(<<"locations", "jobTitles">>).groups
    /\ heap = New(<<"locations", "jobTitles">>).heap
    /\ input = <<>>
    /\ result = <<>>
    /\ lastOp = [op |-> "New", name |-> "", repeat |-> FALSE]
    /\ nAdds = 0
    /\ Quiescent(heap)
    /\ MadeByNew

\* the call c has been made: the last of its entities is stored in its group
CallMade(c) ==
    /\ c.name \in DOMAIN groups
    /\ c.ents[Len(c.ents)] \in PhrasesOf(GroupOf(groups, heap, c.name))

\* store.Add(c.name, c.ents...), a call not made yet
ScenarioAdd(c) ==
    /\ ~CallMade(c)
    /\ groups' = AddStore(groups, heap, c.name, c.ents).groups
    /\ heap' = AddStore(groups, heap, c.name, c.ents).heap
    /\ lastOp' = [op |-> "Add", name |-> c.name, repeat |-> FALSE]
    /\ nAdds' = nAdds + 1
    /\ glock' = [i \in 1 .. Len(heap') |-> FreeLock]
    /\ UNCHANGED <<input, result, pc, loc, slock, fatal, nOps, log, overlap, extVars>>

ScenarioNext ==
    \/ \E c \in ScenarioCalls : ScenarioAdd(c)
    \/ \E rs \in ScenarioDocs : FindAll(rs)

SpecScenario == ScenarioInit /\ [][ScenarioNext]_vars

\* the store of the scenario: locations, jobTitles and skills, with the
\* phrases of TestFind
ScenarioStore ==
    /\ DOMAIN groups = {"locations", "jobTitles", "skills"}
    /\ Stored("locations") = {EntSanFrancisco}
    /\ Stored("jobTitles") = {EntGolangDeveloper}
    /\ Stored("skills") = {EntPHP, EntHan, EntPRC}

\* C3: (concrete scenario) with locations = {"San Francisco, USA"}, jobTitles =
\* {"golang developer"} and skills = {"PHP", "本語", "PRC"} (skills created by
\* Add), FindAll of the document yields "San Francisco, USA" at offset 60,
\* "golang developer" at 17, "本語" at 2 and "PHP" at 104, offsets in code
\* points, and nothing else.
C3_Scenario ==
    (ScenarioStore /\ lastOp.op = "FindAll" /\ input = DocScenario) =>
        result = [n \in {"locations", "jobTitles", "skills"} |->
                     IF n = "locations" THEN <<[Text |-> EntSanFrancisco, Offset |-> 60]>>
                     ELSE IF n = "jobTitles" THEN <<[Text |-> EntGolangDeveloper, Offset |-> 17]>>
                     ELSE <<[Text |-> EntHan, Offset |-> 2], [Text |-> EntPHP, Offset |-> 104]>>]

\* the document has been searched in the store of the scenario, skills being
\* a group that New did not create
C3_Witness ==
    /\ ScenarioStore
    /\ lastOp.op = "FindAll"
    /\ input = DocScenario
    /\ groups["skills"] > 2
    /\ Len(result["skills"]) = 2

\* the bucket key of a span of fewer than 1000 runes as the format names it:
\* the first runes, at most 3, lowercased, then the hundreds, the tens and
\* the units of the length as digits
KeyFormat(e) ==
    LET n == Len(e)
        m == IF n < 3 THEN n ELSE 3
    IN  [i \in 1 .. m |-> ToLower(e[i])]
            \o <<48 + ((n \div 100) % 10), 48 + ((n \div 10) % 10), 48 + (n % 10)>>

\* the spans hash is looked at on: the stored phrases, the prefixes of the
\* text searched and its spans of at most 4 runes
KeySpans ==
    UNION {Stored(n) : n \in DOMAIN groups}
        \cup {Slice(input, 0, j) : j \in 1 .. Len(input)}
        \cup {Slice(input, i, j) : <<i, j>> \in
                 {x \in (0 .. Len(input)) \X (0 .. Len(input)) : x[1] < x[2] /\ x[2] - x[1] <= 4}}

MaxOps == 3

ConcNames == {"A", "B"}

\* "a"
PhA == <<97>>

\* "b"
PhB == <<98>>

\* the entity lists of the concurrent Add calls
ConcBatches == {<<PhA>>, <<PhB>>, <<PhA, PhB>>}

\* "x a b."
ConcText == <<120, 32, 97, 32, 98, 46>>

\* rw.Lock() can take the writers' mutex: no other goroutine is in Lock
CanAnnounce(l) == l.writer = NoProc

\* rw.Lock(), first half: the writer is announced, new readers are held off
LockAnnounce(l, p) == [l EXCEPT !.writer = p, !.waiting = TRUE]

\* rw.Lock() returns: the readers have left
CanAcquire(l, p) == l.writer = p /\ l.waiting /\ l.readers = {}

LockAcquire(l) == [l EXCEPT !.waiting = FALSE]

\* rw.Unlock()
Unlock(l) == [l EXCEPT !.writer = NoProc, !.waiting = FALSE]

\* rw.RLock() returns: no writer holds the lock or waits for it
CanRLock(l) == l.writer = NoProc

RLock(l, p) == [l EXCEPT !.readers = @ \cup {p}]

\* rw.RUnlock()
RUnlock(l, p) == [l EXCEPT !.readers = @ \ {p}]

\* p holds l for writing / for reading
HoldsW(l, p) == l.writer = p /\ ~l.waiting

HoldsR(l, p) == p \in l.readers

\* the program runs and p is at the statement l
At(p, l) == ~fatal /\ pc[p] = l

\* p is about to write the entry of its group: g.entities[h] = ..., g.maxLen = ...
WritesGroup(p) == pc[p] = "add_write" /\ loc[p].k <= Len(loc[p].ents)

\* store := New("A"); no goroutine runs
ConcInit ==
    /\ groups = New(<<"A">>).groups
    /\ heap = New(<<"A">>).heap
    /\ input = <<>>
    /\ result = <<>>
    /\ lastOp = [op |-> "New", name |-> "", repeat |-> FALSE]
    /\ nAdds = 0
    /\ Quiescent(heap)
    /\ MadeByNew

\* go s.Add(name, ents...)
GoAdd(p, name, ents) ==
    /\ At(p, "idle")
    /\ nOps < MaxOps
    /\ pc' = [pc EXCEPT ![p] = "add_slock"]
    /\ loc' = [loc EXCEPT ![p] = [NoLocals EXCEPT !.name = name, !.ents = ents]]
    /\ nOps' = nOps + 1
    /\ overlap' = (overlap \/ (name \notin DOMAIN groups /\
                                 \E q \in Procs \ {p} :
                                     /\ pc[q] \in {"add_slock", "add_swait", "add_lookup", "add_insert"}
                                     /\ loc[q].name = name))
    /\ UNCHANGED <<seqVars, slock, glock, fatal, log, extVars>>

\* Add does not take the store's lock
AddSLock_none(p) ==
    /\ At(p, "add_slock")
    /\ pc' = [pc EXCEPT ![p] = "add_lookup"]
    /\ UNCHANGED <<seqVars, loc, slock, glock, fatal, nOps, log, overlap, extVars>>

\* s.Lock() is called
AddSLock(p) ==
    /\ At(p, "add_slock")
    /\ CanAnnounce(slock)
    /\ slock' = LockAnnounce(slock, p)
    /\ pc' = [pc EXCEPT ![p] = "add_swait"]
    /\ UNCHANGED <<seqVars, loc, glock, fatal, nOps, log, overlap, extVars>>

\* s.Lock() returns
AddSLocked(p) ==
    /\ At(p, "add_swait")
    /\ CanAcquire(slock, p)
    /\ slock' = LockAcquire(slock)
    /\ pc' = [pc EXCEPT ![p] = "add_lookup"]
    /\ UNCHANGED <<seqVars, loc, glock, fatal, nOps, log, overlap, extVars>>

\* g, ok := s.groups[name]
AddFind(p) ==
    /\ At(p, "add_lookup")
    /\ IF loc[p].name \in DOMAIN groups
       THEN /\ loc' = [loc EXCEPT ![p].g = groups[loc[p].name]]
            /\ pc' = [pc EXCEPT ![p] = "add_sunlock"]
       ELSE /\ loc' = loc
            /\ pc' = [pc EXCEPT ![p] = "add_insert"]
    /\ UNCHANGED <<seqVars, slock, glock, fatal, nOps, log, overlap, extVars>>

\* if !ok { g = &group{...}; s.groups[name] = g }
AddCreate(p) ==
    /\ At(p, "add_insert")
    /\ heap' = Append(heap, NewGroup(loc[p].name))
    /\ glock' = Append(glock, FreeLock)
    /\ groups' = MapPut(groups, loc[p].name, Len(heap) + 1)
    /\ loc' = [loc EXCEPT ![p].g = Len(heap) + 1]
    /\ pc' = [pc EXCEPT ![p] = "add_sunlock"]
    /\ UNCHANGED <<input, result, lastOp, nAdds, slock, fatal, nOps, log, overlap, extVars>>

\* s.Unlock()
AddSUnlock(p) ==
    /\ At(p, "add_sunlock")
    /\ slock' = Unlock(slock)
    /\ pc' = [pc EXCEPT ![p] = "add_glock"]
    /\ UNCHANGED <<seqVars, loc, glock, fatal, nOps, log, overlap, extVars>>

\* g.Lock() is called
AddGLock(p) ==
    /\ At(p, "add_glock")
    /\ CanAnnounce(glock[loc[p].g])
    /\ glock' = [glock EXCEPT ![loc[p].g] = LockAnnounce(@, p)]
    /\ pc' = [pc EXCEPT ![p] = "add_gwait"]
    /\ UNCHANGED <<seqVars, loc, slock, fatal, nOps, log, overlap, extVars>>

\* g.Lock() returns
AddGLocked(p) ==
    /\ At(p, "add_gwait")
    /\ CanAcquire(glock[loc[p].g], p)
    /\ glock' = [glock EXCEPT ![loc[p].g] = LockAcquire(@)]
    /\ pc' = [pc EXCEPT ![p] = "add_write"]
    /\ loc' = [loc EXCEPT ![p].k = 1]
    /\ UNCHANGED <<seqVars, slock, fatal, nOps, log, overlap, extVars>>

\* one iteration of "for _, e := range entities"
AddWrite(p) ==
    /\ ~fatal
    /\ WritesGroup(p)
    /\ heap' = [heap EXCEPT ![loc[p].g] = AddEntity(@, loc[p].ents[loc[p].k])]
    /\ loc' = [loc EXCEPT ![p].k = @ + 1]
    /\ UNCHANGED <<groups, input, result, lastOp, nAdds, pc, slock, glock, fatal,
                   nOps, log, overlap, extVars>>

\* g.Unlock(), and Add returns
AddGUnlock(p) ==
    /\ At(p, "add_write")
    /\ loc[p].k > Len(loc[p].ents)
    /\ glock' = [glock EXCEPT ![loc[p].g] = Unlock(@)]
    /\ log' = Logged(log, loc[p].name, loc[p].ents)
    /\ pc' = [pc EXCEPT ![p] = "idle"]
    /\ loc' = [loc EXCEPT ![p] = NoLocals]
    /\ UNCHANGED <<seqVars, slock, fatal, nOps, overlap, extVars>>

\* go s.FindAll(rs)
GoFindAll(p, rs) ==
    /\ At(p, "idle")
    /\ nOps < MaxOps
    /\ pc' = [pc EXCEPT ![p] = "fa_begin"]
    /\ loc' = [loc EXCEPT ![p] = [NoLocals EXCEPT !.rs = rs]]
    /\ nOps' = nOps + 1
    /\ UNCHANGED <<seqVars, slock, glock, fatal, log, overlap, extVars>>

\* result := make(map[string][]Entity, len(s.groups)), and the range over
\* s.groups begins: the entries there now are all visited, later ones may be
FindAllBegin(p) ==
    /\ At(p, "fa_begin")
    /\ loc' = [loc EXCEPT ![p].first = DOMAIN groups]
    /\ pc' = [pc EXCEPT ![p] = "fa_range"]
    /\ UNCHANGED <<seqVars, slock, glock, fatal, nOps, log, overlap, extVars>>

\* for s, g := range s.groups: the next entry
FindAllNext(p) ==
    /\ At(p, "fa_range")
    /\ \E n \in DOMAIN groups \ loc[p].visited :
          loc' = [loc EXCEPT ![p].name = n, ![p].g = groups[n], ![p].visited = @ \cup {n}]
    /\ pc' = [pc EXCEPT ![p] = "fa_grlock"]
    /\ UNCHANGED <<seqVars, slock, glock, fatal, nOps, log, overlap, extVars>>

\* find takes no lock of the group
FindRLock_none(p) ==
    /\ At(p, "fa_grlock")
    /\ pc' = [pc EXCEPT ![p] = "fa_find"]
    /\ UNCHANGED <<seqVars, loc, slock, glock, fatal, nOps, log, overlap, extVars>>

\* g.RLock()
FindRLock(p) ==
    /\ At(p, "fa_grlock")
    /\ CanRLock(glock[loc[p].g])
    /\ glock' = [glock EXCEPT ![loc[p].g] = RLock(@, p)]
    /\ pc' = [pc EXCEPT ![p] = "fa_find"]
    /\ UNCHANGED <<seqVars, loc, slock, fatal, nOps, log, overlap, extVars>>

\* ents := find(rs, []*group{g}); result[s] = ents[g.name]
FindScan(p) ==
    /\ At(p, "fa_find")
    /\ loc' = [loc EXCEPT ![p].res = MapPut(@, loc[p].name, Find(heap[loc[p].g], loc[p].rs))]
    /\ pc' = [pc EXCEPT ![p] = "fa_grunlock"]
    /\ UNCHANGED <<seqVars, slock, glock, fatal, nOps, log, overlap, extVars>>

\* g.RUnlock()
FindRUnlock(p) ==
    /\ At(p, "fa_grunlock")
    /\ glock' = [glock EXCEPT ![loc[p].g] = RUnlock(@, p)]
    /\ pc' = [pc EXCEPT ![p] = "fa_range"]
    /\ UNCHANGED <<seqVars, loc, slock, fatal, nOps, log, overlap, extVars>>

\* the range is over: return result
FindAllReturn(p) ==
    /\ At(p, "fa_range")
    /\ loc[p].first \subseteq loc[p].visited
    /\ input' = loc[p].rs
    /\ result' = loc[p].res
    /\ lastOp' = [op |-> "FindAll", name |-> "", repeat |-> FALSE]
    /\ pc' = [pc EXCEPT ![p] = "idle"]
    /\ loc' = [loc EXCEPT ![p] = NoLocals]
    /\ UNCHANGED <<groups, heap, nAdds, slock, glock, fatal, nOps, log, overlap, extVars>>

\* go s.Save(dir)
GoSave(p) ==
    /\ At(p, "idle")
    /\ nOps < MaxOps
    /\ pc' = [pc EXCEPT ![p] = "sv_srlock"]
    /\ loc' = [loc EXCEPT ![p] = NoLocals]
    /\ nOps' = nOps + 1
    /\ UNCHANGED <<seqVars, slock, glock, fatal, log, overlap, extVars>>

\* s.RLock(); defer s.RUnlock()
SaveRLock(p) ==
    /\ At(p, "sv_srlock")
    /\ CanRLock(slock)
    /\ slock' = RLock(slock, p)
    /\ pc' = [pc EXCEPT ![p] = "sv_range"]
    /\ UNCHANGED <<seqVars, loc, glock, fatal, nOps, log, overlap, extVars>>

\* for name, g := range s.groups: the next entry, and os.Create succeeds
SaveNext(p) ==
    /\ At(p, "sv_range")
    /\ \E n \in DOMAIN groups \ loc[p].visited :
          loc' = [loc EXCEPT ![p].name = n, ![p].g = groups[n], ![p].visited = @ \cup {n}]
    /\ pc' = [pc EXCEPT ![p] = "sv_read"]
    /\ UNCHANGED <<seqVars, slock, glock, fatal, nOps, log, overlap, extVars>>

\* os.Create fails: return err
SaveCreateFails(p) ==
    /\ At(p, "sv_range")
    /\ DOMAIN groups \ loc[p].visited # {}
    /\ pc' = [pc EXCEPT ![p] = "sv_srunlock"]
    /\ UNCHANGED <<seqVars, loc, slock, glock, fatal, nOps, log, overlap, extVars>>

\* for _, entities := range g.entities { ... f.WriteString(string(e) + "\n") }
SaveRead(p) ==
    /\ At(p, "sv_read")
    /\ loc' = [loc EXCEPT ![p].res = MapPut(@, loc[p].name, PhrasesOf(heap[loc[p].g]))]
    /\ pc' = [pc EXCEPT ![p] = "sv_range"]
    /\ UNCHANGED <<seqVars, slock, glock, fatal, nOps, log, overlap, extVars>>

\* the range is over: return nil
SaveDone(p) ==
    /\ At(p, "sv_range")
    /\ DOMAIN groups \ loc[p].visited = {}
    /\ pc' = [pc EXCEPT ![p] = "sv_srunlock"]
    /\ UNCHANGED <<seqVars, loc, slock, glock, fatal, nOps, log, overlap, extVars>>

\* the deferred s.RUnlock()
SaveRUnlock(p) ==
    /\ At(p, "sv_srunlock")
    /\ slock' = RUnlock(slock, p)
    /\ pc' = [pc EXCEPT ![p] = "idle"]
    /\ loc' = [loc EXCEPT ![p] = NoLocals]
    /\ UNCHANGED <<seqVars, glock, fatal, nOps, log, overlap, extVars>>

\* p is about to read the map s.groups
ReadsStoreMap(p) == pc[p] \in {"fa_begin", "fa_range", "sv_range", "add_lookup"}

\* p is about to write the map s.groups
WritesStoreMap(p) == pc[p] = "add_insert"

\* p is about to read the entities or the maxLen of the group object i
ReadsGroup(p, i) == pc[p] \in {"fa_find", "sv_read"} /\ loc[p].g = i

\* a map is read while another goroutine writes it, and the runtime detects
\* it: fatal error: concurrent map read and map write
RaceFatal ==
    /\ ~fatal
    /\ \E p, q \in Procs :
          /\ p # q
          /\ \/ ReadsStoreMap(p) /\ WritesStoreMap(q)
             \/ ReadsGroup(p, loc[q].g) /\ WritesGroup(q)
    /\ fatal' = TRUE
    /\ UNCHANGED <<seqVars, pc, loc, slock, glock, nOps, log, overlap, extVars>>

\* the steps of the goroutine p
ProcNext(p) ==
    \/ \E name \in ConcNames, ents \in ConcBatches : GoAdd(p, name, ents)
    \/ AddSLock(p)
    \/ AddSLocked(p)
    \/ AddFind(p)
    \/ AddCreate(p)
    \/ AddSUnlock(p)
    \/ AddGLock(p)
    \/ AddGLocked(p)
    \/ AddWrite(p)
    \/ AddGUnlock(p)
    \/ GoFindAll(p, ConcText)
    \/ FindAllBegin(p)
    \/ FindAllNext(p)
    \/ FindRLock(p)
    \/ FindScan(p)
    \/ FindRUnlock(p)
    \/ FindAllReturn(p)
    \/ GoSave(p)
    \/ SaveRLock(p)
    \/ SaveNext(p)
    \/ SaveCreateFails(p)
    \/ SaveRead(p)
    \/ SaveDone(p)
    \/ SaveRUnlock(p)

ConcNext ==
    \/ \E p \in Procs : ProcNext(p)
    \/ RaceFatal

SpecConc == ConcInit /\ [][ConcNext]_vars

(***************************************************************************)
(* Properties of the concurrent specification.                             *)
(***************************************************************************)
\* how often the phrase e is stored in the group object g
CountIn(g, e) ==
    LET b == MapGet(g.entities, hash(e))
    IN  Cardinality({i \in 1 .. Len(b) : b[i] = e})

\* p runs an Add
InAdd(p) ==
    pc[p] \in {"add_slock", "add_swait", "add_lookup", "add_insert", "add_sunlock",
               "add_glock", "add_gwait", "add_write"}

\* the locks p holds: "store", or the reference of a group
LocksHeld(p) ==
    (IF HoldsW(slock, p) \/ HoldsR(slock, p) THEN {"store"} ELSE {})
        \cup {i \in 1 .. Len(glock) : HoldsW(glock[i], p) \/ HoldsR(glock[i], p)}

C8_GroupLockDiscipline ==
    /\ \A p, q \in Procs : p # q => ~(WritesGroup(q) /\ ReadsGroup(p, loc[q].g))
    /\ \A p, q \in Procs : p # q => ~(WritesGroup(p) /\ WritesGroup(q) /\ loc[p].g = loc[q].g)
    /\ \A p \in Procs : \A i \in 1 .. Len(heap) : ReadsGroup(p, i) => HoldsR(glock[i], p)
    /\ \A p \in Procs : WritesGroup(p) => HoldsW(glock[loc[p].g], p)

\* C9: (read-write discipline on the store's map) s.groups is never read
\* while an Add inserts a group into it, and every access to it is made
\* with the store's lock held in the matching mode.
C9_StoreLockDiscipline ==
    /\ \A p, q \in Procs : p # q => ~(WritesStoreMap(q) /\ ReadsStoreMap(p))
    /\ \A p \in Procs : ReadsStoreMap(p) => (HoldsR(slock, p) \/ HoldsW(slock, p))
    /\ \A p \in Procs : WritesStoreMap(p) => HoldsW(slock, p)

\* every goroutine holds at most one lock, and none calls Lock or RLock on a
\* lock it holds
OneLockAtATime ==
    /\ \A p \in Procs : Cardinality(LocksHeld(p)) <= 1
    /\ \A p \in Procs :
          /\ pc[p] \in {"add_slock", "add_swait", "sv_srlock"} => "store" \notin LocksHeld(p)
          /\ pc[p] \in {"add_glock", "add_gwait", "fa_grlock"} => loc[p].g \notin LocksHeld(p)

\* C10: (deadlock freedom) no operation holds more than one lock at a time
\* or re-acquires a lock it holds, and in every reachable state either no
\* operation is running or some goroutine can take a step: started
\* operations are never stuck.
C10_DeadlockFree ==
    /\ OneLockAtATime
    /\ (\A p \in Procs : pc[p] = "idle") \/ ENABLED ConcNext

\* the Add of q has written all its phrases to the group object i and has not
\* released the group's lock yet
BatchWritten(q, i) ==
    pc[q] = "add_write" /\ loc[q].g = i /\ loc[q].k > Len(loc[q].ents)

\* how often the phrase e is in the batches written to the group object i by
\* the Adds that have not returned yet
WrittenBy(i, e) ==
    Cardinality({x \in UNION {{<<q, k>> : k \in 1 .. Len(loc[q].ents)} : q \in Procs} :
                    BatchWritten(x[1], i) /\ loc[x[1]].ents[x[2]] = e})

\* C27: (a multi-phrase Add is atomic for a search of the group) whenever a
\* goroutine is about to run find on a group, no Add has written a part of
\* its phrases to that group: the group holds every phrase exactly as often
\* as the Adds that returned and the Adds that wrote their whole batch passed
\* it, and its maxLen is the largest length of these phrases.
C27_AtomicBatch ==
    \A p \in Procs :
        pc[p] = "fa_find" =>
            LET i == loc[p].g
                g == heap[i]
            IN  /\ \A q \in Procs \ {p} :
                      (pc[q] = "add_write" /\ loc[q].g = i)
                          => (loc[q].k = 1 \/ loc[q].k > Len(loc[q].ents))
                /\ \A e \in {PhA, PhB} :
                      StoredExact(g, e) = Added(g.name, e) + WrittenBy(i, e)
                /\ g.maxLen = MaxOf({Len(e) : e \in PhrasesOf(g)})

\* a goroutine is about to run find on the group A while an Add of "a" and
\* "b" to A waits for the lock of the group, and the group holds neither
C27_Witness ==
    \E p, q \in Procs :
        /\ ~fatal
        /\ pc[p] = "fa_find"
        /\ pc[q] = "add_gwait"
        /\ loc[q].ents = <<PhA, PhB>>
        /\ loc[q].g = loc[p].g
        /\ PhrasesOf(heap[loc[p].g]) = {}

====
